---------------------------- MODULE Spec2Model ----------------------------
(***************************************************************************)
(* State-machine model of db.py: Database (a wrapper around a psycopg2     *)
(* SimpleConnectionPool) and DatabaseCursor (a context manager that        *)
(* borrows one connection of the pool for a with-block).                   *)
(*                                                                         *)
(* The pool object itself is psycopg2.pool.SimpleConnectionPool, which     *)
(* db.py imports (line 1) and calls at lines 64, 74, 84 and 92.  Its       *)
(* bookkeeping (_pool, _used, _rused, _keys, closed) is modelled here by   *)
(* the operators SimpleConnectionPool, getconn, putconn and closeall, as   *)
(* the library's AbstractConnectionPool computes them.                     *)
(***************************************************************************)
EXTENDS Integers, Sequences, FiniteSets, TLC

\* ------------------------------------------------------------- bounds
MaxPools   == 2   \* pool objects ever created (calls of initialize that succeed)
MaxConns   == 3   \* connections ever established
MaxKeys    == 3   \* value of a pool's _keys counter
MaxMinConn == 1   \* largest minconn of a configuration
MaxMaxConn == 2   \* largest maxconn of a configuration
MaxCursors == 1   \* DatabaseCursor objects
MaxScopes  == 2   \* with-blocks open at the same time
MaxThreads == 2   \* threads that share one pool
MaxCalls   == 2   \* calls of get_connection/return_connection per thread

None == 0         \* Python's None, for object references

VARIABLES
    server,     \* Database.server['param']: [minconn, maxconn, complete]
    db,         \* the Database object: [init, connection_pool, params]
    pools,      \* heap of SimpleConnectionPool objects, by identity 1..Len
    conns,      \* heap of psycopg2 connections, by identity 1..Len
    cursors,    \* the DatabaseCursor objects
    scopes,     \* open with-blocks: which cursor object, which connection
    th          \* threads inside getconn/putconn: their position and locals

vars == <<server, db, pools, conns, cursors, scopes, th>>

\* ------------------------------------------------------- small helpers
Max(a, b) == IF a >= b THEN a ELSE b

Range(f) == {f[x] : x \in DOMAIN f}

Without(f, k) == [x \in DOMAIN f \ {k} |-> f[x]]

\* status(): the counts of one pool object
Idle(P)  == Len(P.pool)
InUse(P) == Cardinality(DOMAIN P.used)
Total(P) == Idle(P) + InUse(P)

\* ------------------------------------ psycopg2.pool.SimpleConnectionPool
\* The heap W is [pools, conns].

NewConn == [closed |-> FALSE, status |-> "IDLE"]

\* AbstractConnectionPool._connect(key): a fresh connection, idle when key
\* is None, else checked out under key.
connect(W, p, key) ==
    LET c == Len(W.conns) + 1
    IN  [pools |-> [W.pools EXCEPT ![p] =
                      IF key = None
                      THEN [@ EXCEPT !.pool = Append(@, c)]
                      ELSE [@ EXCEPT !.used = (key :> c) @@ @,
                                     !.rused = (c :> key) @@ @]],
         conns |-> Append(W.conns, NewConn)]

\* A pool that opens its connections on demand only: none at construction.
SimpleConnectionPool_lazy(W, minconn, maxconn) ==
    [pools |-> Append(W.pools,
                 [minconn |-> minconn, maxconn |-> maxconn,
                  closed |-> FALSE, pool |-> <<>>,
                  used |-> <<>>, rused |-> <<>>, keys |-> 0]),
     conns |-> W.conns]

\* AbstractConnectionPool.__init__: minconn and maxconn are stored as given
\* (no comparison of the two) and range(minconn) connections are opened.
SimpleConnectionPool(W, minconn, maxconn) ==
    LET n == Max(minconn, 0)
        base == Len(W.conns)
    IN  [pools |-> Append(W.pools,
                     [minconn |-> minconn, maxconn |-> maxconn,
                      closed |-> FALSE,
                      pool |-> [i \in 1..n |-> base + i],
                      used |-> <<>>, rused |-> <<>>, keys |-> 0]),
         conns |-> W.conns \o [i \in 1..n |-> NewConn]]

\* AbstractConnectionPool._getconn(key=None)
getconn(W, p) ==
    LET P == W.pools[p]
        key == P.keys + 1
        W1 == [W EXCEPT !.pools[p].keys = key]
    IN  IF P.closed
        THEN [W |-> W, ret |-> None, err |-> "closed"]
        ELSE IF key \in DOMAIN P.used
        THEN [W |-> W1, ret |-> P.used[key], err |-> "none"]
        ELSE IF P.pool # <<>>
        THEN LET c == P.pool[Len(P.pool)]
             IN  [W |-> [W1 EXCEPT !.pools[p].pool = SubSeq(@, 1, Len(@) - 1),
                                   !.pools[p].used = (key :> c) @@ @,
                                   !.pools[p].rused = (c :> key) @@ @],
                  ret |-> c, err |-> "none"]
        ELSE IF InUse(P) = P.maxconn
        THEN [W |-> W1, ret |-> None, err |-> "exhausted"]
        ELSE [W |-> connect(W1, p, key), ret |-> Len(W.conns) + 1,
              err |-> "none"]

\* AbstractConnectionPool._putconn, once the key of conn is known: the
\* connection goes back to the idle list while fewer than minconn are idle
\* (rolled back first when it is in a transaction, dropped when it is
\* closed) and is closed otherwise; then its _used and _rused entries are
\* deleted.  rollback says whether putconn rolled the connection back.
PutKeyed(W, p, conn) ==
    LET P == W.pools[p]
        key == P.rused[conn]
        C == W.conns[conn]
        keep == Len(P.pool) < P.minconn
        W1 == IF keep
              THEN IF C.closed
                   THEN W
                   ELSE [W EXCEPT !.conns[conn].status = "IDLE",
                                  !.pools[p].pool = Append(@, conn)]
              ELSE [W EXCEPT !.conns[conn].closed = TRUE]
    IN  [W |-> [W1 EXCEPT !.pools[p].used = Without(@, key),
                          !.pools[p].rused = Without(@, conn)],
         err |-> "none",
         rollback |-> keep /\ ~C.closed /\ C.status # "IDLE"]

\* putconn without the test for an unkeyed connection: a connection the
\* pool does not know is taken into the idle list.
putconn_accepts_unkeyed(W, p, conn) ==
    IF W.pools[p].closed
    THEN [W |-> W, err |-> "closed", rollback |-> FALSE]
    ELSE IF conn \notin DOMAIN W.pools[p].rused
    THEN [W |-> [W EXCEPT !.pools[p].pool = Append(@, conn)],
          err |-> "none", rollback |-> FALSE]
    ELSE PutKeyed(W, p, conn)

\* AbstractConnectionPool._putconn(conn, key=None, close=False)
putconn(W, p, conn) ==
    IF W.pools[p].closed
    THEN [W |-> W, err |-> "closed", rollback |-> FALSE]
    ELSE IF conn \notin DOMAIN W.pools[p].rused
    THEN [W |-> W, err |-> "unkeyed", rollback |-> FALSE]
    ELSE PutKeyed(W, p, conn)

\* AbstractConnectionPool._closeall()
closeall(W, p) ==
    LET P == W.pools[p]
        all == Range(P.pool) \cup Range(P.used)
    IN  IF P.closed
        THEN [W |-> W, err |-> "closed"]
        ELSE [W |-> [pools |-> [W.pools EXCEPT ![p].closed = TRUE],
                     conns |-> [c \in DOMAIN W.conns |->
                                  IF c \in all
                                  THEN [W.conns[c] EXCEPT !.closed = TRUE]
                                  ELSE W.conns[c]]],
              err |-> "none"]

\* ------------------------------------------------------------ Database
\* An object o is [init, connection_pool, params]; params is TRUE once
\* self.params has been assigned.

Database__init__ == [init |-> FALSE, connection_pool |-> None, params |-> FALSE]

\* Database.__repr__
IsConnected(o) == o.connection_pool # None /\ o.init

\* Database.initialize: the reads of server[...] raise KeyError when a
\* field is missing; else params, connection_pool and init are assigned.
initialize(W, o, srv) ==
    IF ~srv.complete
    THEN [W |-> W, o |-> o, err |-> "KeyError"]
    ELSE LET W1 == SimpleConnectionPool(W, srv.minconn, srv.maxconn)
         IN  [W |-> W1,
              o |-> [o EXCEPT !.params = TRUE,
                              !.connection_pool = Len(W1.pools),
                              !.init = TRUE],
              err |-> "none"]

\* Database.get_connection
get_connection(W, o) ==
    IF o.connection_pool = None
    THEN [W |-> W, ret |-> None, err |-> "AttributeError"]
    ELSE getconn(W, o.connection_pool)

\* Database.return_connection
return_connection(W, o, conn) ==
    IF o.connection_pool = None
    THEN [W |-> W, err |-> "AttributeError", rollback |-> FALSE]
    ELSE putconn(W, o.connection_pool, conn)

\* A shutdown that closes the pool and clears init but keeps the reference
\* to the closed pool.
close_all_connections_keeps_pool(W, o) ==
    IF o.connection_pool = None
    THEN [W |-> W, o |-> o, err |-> "AttributeError"]
    ELSE LET r == closeall(W, o.connection_pool)
         IN  IF r.err # "none"
             THEN [W |-> W, o |-> o, err |-> r.err]
             ELSE [W |-> r.W, o |-> [o EXCEPT !.init = FALSE], err |-> "none"]

\* Database.close_all_connections
close_all_connections(W, o) ==
    IF o.connection_pool = None
    THEN [W |-> W, o |-> o, err |-> "AttributeError"]
    ELSE LET r == closeall(W, o.connection_pool)
         IN  IF r.err # "none"
             THEN [W |-> W, o |-> o, err |-> r.err]
             ELSE [W |-> r.W,
                   o |-> [o EXCEPT !.init = FALSE, !.connection_pool = None],
                   err |-> "none"]


\* ------------------------------------------------------ DatabaseCursor
\* A DatabaseCursor object is a Database object (it inherits the fields
\* init, connection_pool, params) with database-independent copies of the
\* pool reference, the connection and the cursor.  cursor is "None", "open"
\* or "closed".  made says whether the object has been constructed.

NoCursor == [made |-> FALSE, init |-> FALSE, connection_pool |-> None,
             params |-> FALSE, connection |-> None, cursor |-> "None"]

\* DatabaseCursor.__init__(database=d): initializes d when d.init is false,
\* then copies d.connection_pool.  argsOk is false for a call with neither a
\* Database nor a (server, dbname) pair: RuntimeError.
DatabaseCursor__init__(W, d, srv, argsOk) ==
    IF ~argsOk
    THEN [W |-> W, d |-> d, cur |-> NoCursor, err |-> "RuntimeError"]
    ELSE LET r == IF ~d.init THEN initialize(W, d, srv)
                  ELSE [W |-> W, o |-> d, err |-> "none"]
         IN  IF r.err # "none"
             THEN [W |-> W, d |-> d, cur |-> NoCursor, err |-> r.err]
             ELSE [W |-> r.W, d |-> r.o,
                   cur |-> [NoCursor EXCEPT !.made = TRUE,
                               !.connection_pool = r.o.connection_pool],
                   err |-> "none"]

\* DatabaseCursor.__enter__: cursorFails says whether connection.cursor()
\* raises (it also raises on a closed connection).
__enter__(W, cur, cursorFails) ==
    LET r == get_connection(W, cur)
    IN  IF r.err # "none"
        THEN [W |-> r.W, cur |-> cur, err |-> r.err]
        ELSE LET cur1 == [cur EXCEPT !.connection = r.ret]
             IN  IF cursorFails \/ r.W.conns[r.ret].closed
                 THEN [W |-> r.W, cur |-> cur1, err |-> "cursor"]
                 ELSE [W |-> r.W, cur |-> [cur1 EXCEPT !.cursor = "open"],
                       err |-> "none"]

\* connection.commit() / connection.rollback(): raise on a closed
\* connection or when the driver fails (fails); else end the transaction.
EndTransaction(W, conn, fails) ==
    IF fails \/ W.conns[conn].closed
    THEN [W |-> W, ok |-> FALSE]
    ELSE [W |-> [W EXCEPT !.conns[conn].status = "IDLE"], ok |-> TRUE]

\* DatabaseCursor.__exit__(exc_type, exc_val, exc_tb): exc says whether
\* exc_val is not None, fails whether the commit or rollback it calls
\* raises.  calls lists the calls made, err the exception __exit__ itself
\* raises, ret its return value: always None, so that the with statement
\* re-raises an exception of the body.
__exit__(W, cur, exc, fails) ==
    LET conn == cur.connection
        t == EndTransaction(W, conn, fails)
        cur1 == IF exc THEN cur ELSE [cur EXCEPT !.cursor = "closed"]
        c1 == IF exc THEN <<"rollback">> ELSE <<"cursor.close", "commit">>
    IN  IF ~t.ok
        THEN [W |-> W, cur |-> cur1, calls |-> c1, ret |-> None,
              err |-> IF exc THEN "rollback" ELSE "commit"]
        ELSE LET r == return_connection(t.W, cur1, conn)
             IN  [W |-> r.W, cur |-> cur1, ret |-> None,
                  calls |-> Append(c1, "return_connection")
                            \o (IF r.rollback THEN <<"rollback">> ELSE <<>>),
                  err |-> r.err]

\* The with statement around __exit__: what the caller of the block sees.
\* An exception raised by __exit__ replaces the one of the body; else the
\* body's exception is re-raised unless __exit__ returned a true value.
Propagated(r, exc) ==
    IF r.err # "none" THEN r.err
    ELSE IF exc /\ r.ret = None THEN "body"
    ELSE "none"

\* cursor.execute(...) in the body of a with-block: opens a transaction on
\* the connection the cursor belongs to.
execute(W, conn) ==
    IF W.conns[conn].closed THEN W
    ELSE [W EXCEPT !.conns[conn].status = "INTRANS"]

\* --------------------------------------------------------------- state
Configs ==
    [minconn : -1..MaxMinConn, maxconn : 0..MaxMaxConn, complete : BOOLEAN]

World == [pools |-> pools, conns |-> conns]

\* An open with-block: the DatabaseCursor object it is on (cur), the
\* connection its __enter__ acquired (conn), whether the cursor __enter__
\* returned to it is still the object's self.cursor (current) and whether
\* that cursor has not been closed (usable).
FreeScope == [state |-> "free", cur |-> 0, conn |-> None,
              current |-> FALSE, usable |-> FALSE]

Threads == 1..MaxThreads

\* A thread: where it is inside getconn/putconn (pc), the locals key and
\* conn of the call, the value of _keys it has loaded (tmp), the
\* connections it has been handed and has not yet given back (held), the
\* exception its last call raised (err) and the calls it has made (n).
IdleThread == [pc |-> "idle", key |-> None, conn |-> None, tmp |-> 0,
               held |-> {}, err |-> "none", n |-> 0]

Init ==
    /\ server \in Configs
    /\ db = Database__init__
    /\ pools = <<>>
    /\ conns = <<>>
    /\ cursors = [c \in 1..MaxCursors |-> NoCursor]
    /\ scopes = [s \in 1..MaxScopes |-> FreeScope]
    /\ th = [t \in Threads |-> IdleThread]

\* The heap bounds: a call is taken only when the objects it creates fit.
Fits(W) ==
    /\ Len(W.pools) <= MaxPools
    /\ Len(W.conns) <= MaxConns
    /\ \A p \in DOMAIN W.pools : W.pools[p].keys <= MaxKeys

\* ------------------------------------------------------------- actions
\* db.initialize()
Initialize ==
    LET r == initialize(World, db, server)
    IN  /\ Fits(r.W)
        /\ db' = r.o
        /\ pools' = r.W.pools
        /\ conns' = r.W.conns
        /\ UNCHANGED <<server, cursors, scopes, th>>

\* db.get_connection()
GetConnection ==
    LET r == get_connection(World, db)
    IN  /\ Fits(r.W)
        /\ pools' = r.W.pools
        /\ conns' = r.W.conns
        /\ UNCHANGED <<server, db, cursors, scopes, th>>

\* db.return_connection(conn), for any connection object the caller has
ReturnConnection(conn) ==
    LET r == return_connection(World, db, conn)
    IN  /\ pools' = r.W.pools
        /\ conns' = r.W.conns
        /\ UNCHANGED <<server, db, cursors, scopes, th>>

\* db.close_all_connections()
CloseAllConnections ==
    LET r == close_all_connections(World, db)
    IN  /\ db' = r.o
        /\ pools' = r.W.pools
        /\ conns' = r.W.conns
        /\ UNCHANGED <<server, cursors, scopes, th>>

\* cursors[c] = DatabaseCursor(database=db)
NewCursor(c, argsOk) ==
    LET r == DatabaseCursor__init__(World, db, server, argsOk)
    IN  /\ ~cursors[c].made
        /\ \A b \in 1..(c - 1) : cursors[b].made
        /\ Fits(r.W)
        /\ db' = r.d
        /\ pools' = r.W.pools
        /\ conns' = r.W.conns
        /\ cursors' = [cursors EXCEPT ![c] = r.cur]
        /\ UNCHANGED <<server, scopes, th>>

\* with cursors[c] as ...: __enter__ runs; the block is open when it returns
Enter(c, s, cursorFails) ==
    LET r == __enter__(World, cursors[c], cursorFails)
    IN  /\ cursors[c].made
        /\ scopes[s].state = "free"
        /\ \A b \in 1..(s - 1) : scopes[b].state # "free"
        /\ Fits(r.W)
        /\ pools' = r.W.pools
        /\ conns' = r.W.conns
        /\ cursors' = [cursors EXCEPT ![c] = r.cur]
        /\ scopes' = IF r.err = "none"
                     THEN [x \in DOMAIN scopes |->
                             IF x = s
                             THEN [state |-> "body", cur |-> c,
                                   conn |-> r.cur.connection,
                                   current |-> TRUE, usable |-> TRUE]
                             ELSE IF scopes[x].cur = c
                             THEN [scopes[x] EXCEPT !.current = FALSE]
                             ELSE scopes[x]]
                     ELSE scopes
        /\ UNCHANGED <<server, db, th>>

\* a statement of the block's body on the cursor __enter__ returned; it
\* raises, and changes nothing, when that cursor has been closed
Execute(s) ==
    /\ scopes[s].state = "body"
    /\ conns' = IF scopes[s].usable
                THEN execute(World, scopes[s].conn).conns
                ELSE conns
    /\ UNCHANGED <<server, db, pools, cursors, scopes, th>>

\* the block ends: __exit__ runs on the cursor object of the block; its
\* self.cursor.close() closes the cursor of the latest __enter__
Exit(s, exc, fails) ==
    LET c == scopes[s].cur
        r == __exit__(World, cursors[c], exc, fails)
    IN  /\ scopes[s].state = "body"
        /\ pools' = r.W.pools
        /\ conns' = r.W.conns
        /\ cursors' = [cursors EXCEPT ![c] = r.cur]
        /\ scopes' = [x \in DOMAIN scopes |->
                         IF x = s THEN FreeScope
                         ELSE IF ~exc /\ scopes[x].cur = c /\ scopes[x].current
                         THEN [scopes[x] EXCEPT !.usable = FALSE]
                         ELSE scopes[x]]
        /\ UNCHANGED <<server, db, th>>

Next ==
    \/ Initialize
    \/ GetConnection
    \/ \E conn \in DOMAIN conns : ReturnConnection(conn)
    \/ CloseAllConnections
    \/ \E c \in 1..MaxCursors, argsOk \in BOOLEAN : NewCursor(c, argsOk)
    \/ \E c \in 1..MaxCursors, s \in 1..MaxScopes, f \in BOOLEAN : Enter(c, s, f)
    \/ \E s \in 1..MaxScopes : Execute(s)
    \/ \E s \in 1..MaxScopes, exc \in BOOLEAN, fails \in BOOLEAN : Exit(s, exc, fails)

Spec == Init /\ [][Next]_vars

\* A program that reaches its connections through DatabaseCursor blocks
\* only: it never calls get_connection() or return_connection() itself.
NextCursor ==
    \/ Initialize
    \/ CloseAllConnections
    \/ \E c \in 1..MaxCursors, argsOk \in BOOLEAN : NewCursor(c, argsOk)
    \/ \E c \in 1..MaxCursors, s \in 1..MaxScopes, f \in BOOLEAN : Enter(c, s, f)
    \/ \E s \in 1..MaxScopes : Execute(s)
    \/ \E s \in 1..MaxScopes, exc \in BOOLEAN, fails \in BOOLEAN : Exit(s, exc, fails)

SpecCursor == Init /\ [][NextCursor]_vars


\* ------------------------------------------------- threads on one pool
\* Several threads call db.get_connection() and db.return_connection() on
\* the pool db.initialize() has created.  SimpleConnectionPool takes no
\* lock, so the statements of _getconn and _putconn of different threads
\* interleave; each action below is one statement of the library.

ThePool == db.connection_pool

InitThreads ==
    /\ server \in {c \in Configs : /\ c.complete
                                    /\ 0 <= c.minconn
                                    /\ c.minconn <= c.maxconn
                                    /\ 1 <= c.maxconn}
    /\ LET r == initialize([pools |-> <<>>, conns |-> <<>>],
                           Database__init__, server)
       IN  /\ db = r.o
           /\ pools = r.W.pools
           /\ conns = r.W.conns
    /\ cursors = [c \in 1..MaxCursors |-> NoCursor]
    /\ scopes = [s \in 1..MaxScopes |-> FreeScope]
    /\ th = [t \in Threads |-> IdleThread]

Goto(t, pc) == th' = [th EXCEPT ![t].pc = pc]

\* The call ends: its locals are gone.
Raise(t, e) ==
    th' = [th EXCEPT ![t] = [IdleThread EXCEPT !.err = e, !.held = th[t].held,
                                               !.n = th[t].n]]

Return(t, c) ==
    th' = [th EXCEPT ![t] = [IdleThread EXCEPT !.held = th[t].held \cup c,
                                               !.n = th[t].n]]

\* get_connection() is called: _getconn starts (self.closed is false: no
\* thread closes the pool here)
GetStart(t) ==
    /\ th[t].pc = "idle"
    /\ th[t].n < MaxCalls
    /\ th' = [th EXCEPT ![t].pc = "getkey_load", ![t].err = "none",
                        ![t].n = @ + 1]
    /\ UNCHANGED <<server, db, pools, conns, cursors, scopes>>

\* _getkey: self._keys += 1 loads the counter ...
GetKeyLoad(t) ==
    /\ th[t].pc = "getkey_load"
    /\ th' = [th EXCEPT ![t].pc = "getkey_store",
                        ![t].tmp = pools[ThePool].keys]
    /\ UNCHANGED <<server, db, pools, conns, cursors, scopes>>

\* ... and stores the sum
GetKeyStore(t) ==
    /\ th[t].pc = "getkey_store"
    /\ pools' = [pools EXCEPT ![ThePool].keys = th[t].tmp + 1]
    /\ th' = [th EXCEPT ![t].pc = "getkey_return", ![t].tmp = 0]
    /\ UNCHANGED <<server, db, conns, cursors, scopes>>

\* _getkey: return self._keys
GetKeyReturn(t) ==
    /\ th[t].pc = "getkey_return"
    /\ th' = [th EXCEPT ![t].pc = "check_used", ![t].key = pools[ThePool].keys]
    /\ UNCHANGED <<server, db, pools, conns, cursors, scopes>>

\* if key in self._used: return self._used[key]
GetCheckUsed(t) ==
    /\ th[t].pc = "check_used"
    /\ IF th[t].key \in DOMAIN pools[ThePool].used
       THEN Return(t, {pools[ThePool].used[th[t].key]})
       ELSE Goto(t, "check_pool")
    /\ UNCHANGED <<server, db, pools, conns, cursors, scopes>>

\* if self._pool:
GetCheckPool(t) ==
    /\ th[t].pc = "check_pool"
    /\ IF pools[ThePool].pool # <<>>
       THEN Goto(t, "pop")
       ELSE Goto(t, "check_full")
    /\ UNCHANGED <<server, db, pools, conns, cursors, scopes>>

\* conn = self._pool.pop(): IndexError on a list emptied in between
GetPop(t) ==
    /\ th[t].pc = "pop"
    /\ LET q == pools[ThePool].pool
       IN  IF q = <<>>
           THEN Raise(t, "IndexError") /\ UNCHANGED pools
           ELSE /\ th' = [th EXCEPT ![t].pc = "store", ![t].conn = q[Len(q)]]
                /\ pools' = [pools EXCEPT
                               ![ThePool].pool = SubSeq(q, 1, Len(q) - 1)]
    /\ UNCHANGED <<server, db, conns, cursors, scopes>>

\* self._used[key] = conn; self._rused[id(conn)] = key; return conn
GetStore(t) ==
    /\ th[t].pc = "store"
    /\ pools' = [pools EXCEPT
                   ![ThePool].used = (th[t].key :> th[t].conn) @@ @,
                   ![ThePool].rused = (th[t].conn :> th[t].key) @@ @]
    /\ Return(t, {th[t].conn})
    /\ UNCHANGED <<server, db, conns, cursors, scopes>>

\* if len(self._used) == self.maxconn: raise PoolError(exhausted)
GetCheckFull(t) ==
    /\ th[t].pc = "check_full"
    /\ IF InUse(pools[ThePool]) = pools[ThePool].maxconn
       THEN Raise(t, "exhausted")
       ELSE Goto(t, "connect")
    /\ UNCHANGED <<server, db, pools, conns, cursors, scopes>>

\* return self._connect(key)
GetConnect(t) ==
    /\ th[t].pc = "connect"
    /\ Len(conns) < MaxConns
    /\ LET W == connect(World, ThePool, th[t].key)
       IN  pools' = W.pools /\ conns' = W.conns
    /\ Return(t, {Len(conns) + 1})
    /\ UNCHANGED <<server, db, cursors, scopes>>

\* return_connection(conn) is called with a connection the thread holds:
\* _putconn starts, and the caller no longer uses conn
PutStart(t, conn) ==
    /\ th[t].pc = "idle"
    /\ th[t].n < MaxCalls
    /\ conn \in th[t].held
    /\ th' = [th EXCEPT ![t].pc = "put_key", ![t].err = "none",
                        ![t].conn = conn, ![t].held = @ \ {conn},
                        ![t].n = @ + 1]
    /\ UNCHANGED <<server, db, pools, conns, cursors, scopes>>

\* key = self._rused.get(id(conn)); if key is None: raise PoolError
PutKey(t) ==
    /\ th[t].pc = "put_key"
    /\ IF th[t].conn \in DOMAIN pools[ThePool].rused
       THEN th' = [th EXCEPT ![t].pc = "put_keep",
                             ![t].key = pools[ThePool].rused[th[t].conn]]
       ELSE Raise(t, "unkeyed")
    /\ UNCHANGED <<server, db, pools, conns, cursors, scopes>>

\* if len(self._pool) < self.minconn: self._pool.append(conn)
\* else: conn.close()
PutKeep(t) ==
    /\ th[t].pc = "put_keep"
    /\ LET c == th[t].conn
       IN  IF Len(pools[ThePool].pool) < pools[ThePool].minconn
           THEN IF conns[c].closed
                THEN UNCHANGED <<pools, conns>>
                ELSE /\ pools' = [pools EXCEPT ![ThePool].pool = Append(@, c)]
                     /\ conns' = [conns EXCEPT ![c].status = "IDLE"]
           ELSE /\ conns' = [conns EXCEPT ![c].closed = TRUE]
                /\ UNCHANGED pools
    /\ Goto(t, "put_del")
    /\ UNCHANGED <<server, db, cursors, scopes>>

\* del self._used[key]; del self._rused[id(conn)]: KeyError when the entry
\* is gone
PutDel(t) ==
    /\ th[t].pc = "put_del"
    /\ LET P == pools[ThePool]
       IN  IF th[t].key \notin DOMAIN P.used
           THEN Raise(t, "KeyError") /\ UNCHANGED pools
           ELSE IF th[t].conn \notin DOMAIN P.rused
           THEN /\ Raise(t, "KeyError")
                /\ pools' = [pools EXCEPT
                               ![ThePool].used = Without(@, th[t].key)]
           ELSE /\ Return(t, {})
                /\ pools' = [pools EXCEPT
                               ![ThePool].used = Without(@, th[t].key),
                               ![ThePool].rused = Without(@, th[t].conn)]
    /\ UNCHANGED <<server, db, conns, cursors, scopes>>

NextThreads ==
    \E t \in Threads :
        \/ GetStart(t)
        \/ GetKeyLoad(t)
        \/ GetKeyStore(t)
        \/ GetKeyReturn(t)
        \/ GetCheckUsed(t)
        \/ GetCheckPool(t)
        \/ GetPop(t)
        \/ GetStore(t)
        \/ GetCheckFull(t)
        \/ GetConnect(t)
        \/ \E conn \in DOMAIN conns : PutStart(t, conn)
        \/ PutKey(t)
        \/ PutKeep(t)
        \/ PutDel(t)

SpecThreads == InitThreads /\ [][NextThreads]_vars


\* -------------------------------------------------------------- claims
\* The pool object a cursor object acquires from and releases to.
PoolOf(c) == cursors[c].connection_pool

\* The configuration is one the specification accepts.
ValidConfig ==
    server.complete /\ 0 <= server.minconn /\ server.minconn <= server.maxconn

\* C1: every connection acquired by __enter__ is back in the pool when the
\* matching __exit__ has finished, whether the body succeeded or raised and
\* whether commit() or rollback() itself raised: after __exit__ the
\* connection of the block is no longer checked out.  (Stated for valid
\* configurations, as are C2, C3, C5, C6, C7 and C10.)
C1_ReleasedOnEveryExitPath ==
    [][\A s \in 1..MaxScopes, exc \in BOOLEAN, fails \in BOOLEAN :
          Exit(s, exc, fails) /\ ValidConfig =>
              scopes[s].conn \notin Range(pools'[PoolOf(scopes[s].cur)].used)
      ]_vars

\* C2: when the body raised nothing, __exit__ makes exactly the calls
\* cursor.close(), commit(), return_connection() in this order, no
\* rollback, and leaves the pool with one connection less in use.
C2_SuccessPathSteps ==
    [][\A s \in 1..MaxScopes, fails \in BOOLEAN :
          Exit(s, FALSE, fails) /\ ValidConfig =>
              LET c == scopes[s].cur
                  r == __exit__(World, cursors[c], FALSE, fails)
              IN  /\ r.calls = <<"cursor.close", "commit", "return_connection">>
                  /\ InUse(pools'[PoolOf(c)]) = InUse(pools[PoolOf(c)]) - 1
      ]_vars

\* C3: when the body raised, __exit__ calls rollback(), never commit(),
\* then return_connection(); the body's exception is what the caller sees,
\* and the pool has one connection less in use.
C3_FailurePathSteps ==
    [][\A s \in 1..MaxScopes, fails \in BOOLEAN :
          Exit(s, TRUE, fails) /\ ValidConfig =>
              LET c == scopes[s].cur
                  r == __exit__(World, cursors[c], TRUE, fails)
              IN  /\ r.calls = <<"rollback", "return_connection">>
                  /\ Propagated(r, TRUE) = "body"
                  /\ InUse(pools'[PoolOf(c)]) = InUse(pools[PoolOf(c)]) - 1
      ]_vars

\* C4: in every reachable state the connections in use plus the idle ones
\* of a pool are at most that pool's maxconn.
C4_TotalAtMostMaxconn ==
    \A p \in DOMAIN pools :
        ~pools[p].closed => Total(pools[p]) <= pools[p].maxconn


\* close_all_connections() has been called on db and initialize() has not
\* been called since.
ShutDown == db.params /\ ~db.init

\* C5: after the shutdown of db every acquire fails with the pool-closed
\* error and hands out no connection: db.get_connection(), __enter__ of a
\* cursor object built on db before the shutdown, and __enter__ of one built
\* on db after it.
C5_AcquireAfterShutdownFails ==
    ShutDown /\ ValidConfig =>
        /\ get_connection(World, db).err = "closed"
        /\ \A c \in 1..MaxCursors, f \in BOOLEAN :
              LET n == DatabaseCursor__init__(World, db, server, TRUE)
                  W == IF cursors[c].made THEN World ELSE n.W
                  cur == IF cursors[c].made THEN cursors[c] ELSE n.cur
              IN  (cursors[c].made \/ n.err = "none") =>
                      __enter__(W, cur, f).err = "closed"

\* C6: close_all_connections() on a db that is already shut down raises
\* nothing and leaves db as it is (init false, no pool).
C6_ShutdownIdempotent ==
    ShutDown /\ ValidConfig =>
        LET r == close_all_connections(World, db)
        IN  r.err = "none" /\ r.o = db /\ ~r.o.init
            /\ r.o.connection_pool = None

\* maxconn connections of db's pool are checked out and none is idle.
AtCapacity ==
    /\ db.connection_pool # None
    /\ LET P == pools[db.connection_pool]
       IN  ~P.closed /\ Idle(P) = 0 /\ InUse(P) > 0 /\ InUse(P) = P.maxconn

\* C7: with maxconn connections checked out a further get_connection()
\* does not fail at once with the exhausted error (it waits for a release).
C7_AcquireAtCapacityWaits ==
    AtCapacity /\ ValidConfig => get_connection(World, db).err # "exhausted"

\* conn is not checked out of db's pool: it never was, or it has been
\* returned.
NotCheckedOut(conn) ==
    /\ db.connection_pool # None
    /\ ~pools[db.connection_pool].closed
    /\ conn \notin Range(pools[db.connection_pool].used)

\* C9: return_connection(conn) on an open pool, with a connection that is
\* not checked out of that pool (foreign, or already returned), raises the
\* "trying to put unkeyed connection" error and changes neither the pool
\* nor any connection.
C9_InvalidReleaseRejected ==
    \A conn \in DOMAIN conns :
        NotCheckedOut(conn) =>
            LET r == return_connection(World, db, conn)
            IN  r.err = "unkeyed" /\ r.W = World

\* C9 witness: the only connection ever made was acquired (keys >= 1) and is
\* idle again, so it has been returned; returning it once more is rejected.
C9_Witness ==
    /\ ValidConfig
    /\ Len(conns) = 1 /\ NotCheckedOut(1)
    /\ pools[db.connection_pool].keys >= 1
    /\ pools[db.connection_pool].pool = <<1>>
    /\ return_connection(World, db, 1).err = "unkeyed"

\* C10: a release never destroys the connection: for every configuration
\* with 0 <= minconn <= maxconn, after a successful
\* return_connection(conn), and after a with-block whose __exit__ returned
\* the connection, the connection is idle in the pool, open, and the pool
\* holds as many connections as before.
Kept(p, conn) ==
    /\ conn \in Range(pools'[p].pool)
    /\ ~conns'[conn].closed
    /\ Total(pools'[p]) = Total(pools[p])

C10_ReleaseKeepsConnection ==
    [][/\ \A conn \in DOMAIN conns :
             (ReturnConnection(conn) /\ ValidConfig
                /\ return_connection(World, db, conn).err = "none")
             => Kept(db.connection_pool, conn)
       /\ \A s \in 1..MaxScopes, exc \in BOOLEAN, fails \in BOOLEAN :
             (Exit(s, exc, fails) /\ ValidConfig
                /\ __exit__(World, cursors[scopes[s].cur], exc, fails).err = "none")
             => Kept(PoolOf(scopes[s].cur), cursors[scopes[s].cur].connection)
      ]_vars

\* C8: under any interleaving of get_connection()/return_connection() of
\* several threads no connection is held by two callers at once, and no
\* connection a caller holds is in the pool's idle list.
C8_ExclusiveCheckout ==
    /\ \A t1, t2 \in Threads :
          t1 # t2 => th[t1].held \cap th[t2].held = {}
    /\ \A t \in Threads :
          th[t].held \cap Range(pools[ThePool].pool) = {}

\* C11: for every complete configuration with 0 <= minconn <= maxconn,
\* Database.initialize() succeeds, and right after it the pool of the
\* Database holds exactly minconn connections, all of them idle, open and
\* with no transaction, none in use, and Database.init is true.
C11_FreshPoolHoldsMinconn ==
    ValidConfig =>
        LET r == initialize(World, db, server)
            P == r.W.pools[r.o.connection_pool]
        IN  /\ r.err = "none"
            /\ r.o.init
            /\ r.o.connection_pool \notin DOMAIN pools
            /\ ~P.closed
            /\ Idle(P) = server.minconn
            /\ InUse(P) = 0
            /\ Total(P) = server.minconn
            /\ Cardinality(Range(P.pool)) = server.minconn
            /\ \A c \in Range(P.pool) :
                  /\ c \notin DOMAIN conns
                  /\ ~r.W.conns[c].closed
                  /\ r.W.conns[c].status = "IDLE"

\* a Database right after initialize() with a configuration of at least
\* one initial connection
C11_Witness ==
    /\ ValidConfig
    /\ server.minconn >= 1
    /\ db.init
    /\ db.connection_pool # None
    /\ pools[db.connection_pool].keys = 0
    /\ Idle(pools[db.connection_pool]) = server.minconn
    /\ InUse(pools[db.connection_pool]) = 0

\* C12: with a configuration in which minconn > maxconn, minconn < 0 or a
\* required field is missing, initialize() fails: no pool is ever created
\* from it, the Database holds no pool and init stays false.
C12_InvalidConfigRejected ==
    ~ValidConfig =>
        /\ pools = <<>>
        /\ db.connection_pool = None
        /\ ~db.init

\* C13: at most one live pool exists for the Database at any time: every
\* pool created for it that is not its current connection_pool is closed,
\* whatever sequence of initialize(), DatabaseCursor constructions and
\* close_all_connections() has run.
C13_AtMostOneLivePool ==
    ValidConfig =>
        \A p \in DOMAIN pools :
            ~pools[p].closed => p = db.connection_pool

\* C14: a DatabaseCursor acquires from the pool its Database currently
\* holds: when the pool the cursor was constructed on has been shut down
\* and the Database has been initialized again, __enter__ on that cursor
\* succeeds and checks its connection out of the Database's new pool.
C14_CursorFollowsCurrentPool ==
    \A c \in 1..MaxCursors :
        /\ ValidConfig
        /\ server.maxconn >= 1
        /\ cursors[c].made
        /\ pools[PoolOf(c)].closed
        /\ db.init
        /\ Total(pools[db.connection_pool]) = server.minconn
        => LET r == __enter__(World, cursors[c], FALSE)
           IN  /\ r.err = "none"
               /\ r.cur.connection
                     \in Range(r.W.pools[db.connection_pool].used)

\* C15: when one DatabaseCursor object is entered again before its previous
\* block has exited, each __exit__ ends the transaction of, and returns,
\* the connection its own __enter__ acquired: at the exit of a block the
\* cursor's connection is the block's, and after an exit whose commit or
\* rollback succeeds the block's connection is no longer checked out.
\* (Every __enter__ of the cursor has succeeded: its connection is that of
\* one of its open blocks.)
C15_NestedExitReturnsOwnConnection ==
    [][\A s \in 1..MaxScopes, exc \in BOOLEAN :
          /\ Exit(s, exc, FALSE)
          /\ ValidConfig
          /\ ~pools[PoolOf(scopes[s].cur)].closed
          /\ scopes[s].conn \in Range(pools[PoolOf(scopes[s].cur)].used)
          /\ \E s2 \in 1..MaxScopes :
                /\ scopes[s2].state = "body"
                /\ scopes[s2].cur = scopes[s].cur
                /\ scopes[s2].conn = cursors[scopes[s].cur].connection
          => /\ cursors[scopes[s].cur].connection = scopes[s].conn
             /\ scopes[s].conn
                   \notin Range(pools'[PoolOf(scopes[s].cur)].used)
      ]_vars

\* C16: if __enter__ obtains a connection and connection.cursor() then
\* raises, the connection is back in the pool when the error reaches the
\* caller: it is not checked out any more.
C16_FailedEnterReleases ==
    [][\A c \in 1..MaxCursors, s \in 1..MaxScopes :
          /\ Enter(c, s, TRUE)
          /\ ValidConfig
          /\ __enter__(World, cursors[c], TRUE).err = "cursor"
          => cursors'[c].connection \notin Range(pools'[PoolOf(c)].used)
      ]_vars

\* C17: a connection a DatabaseCursor block has put back into the idle set
\* carries no pending transaction, so a later block that acquires it sees
\* no work left over: in a program that uses its connections through
\* DatabaseCursor blocks only, the connection a successful __enter__ takes
\* from the idle list has no transaction open.
C17_AcquiredConnectionIsClean ==
    [][\A c \in 1..MaxCursors, s \in 1..MaxScopes :
          /\ Enter(c, s, FALSE)
          /\ ValidConfig
          /\ __enter__(World, cursors[c], FALSE).err = "none"
          /\ cursors'[c].connection \in Range(pools[PoolOf(c)].pool)
          => conns[cursors'[c].connection].status = "IDLE"
      ]_vars

\* C18: at every operation boundary of the Database object, after any
\* sequence of initialize() and close_all_connections() calls, those that
\* raise included, init is true exactly when connection_pool is not None,
\* so __repr__ reports it connected exactly when a pool exists.
C18_InitIffPool ==
    /\ db.init <=> db.connection_pool # None
    /\ IsConnected(db) <=> db.connection_pool # None

\* a Database that has been initialized and shut down again
C18_Witness ==
    /\ ShutDown
    /\ db.connection_pool = None
    /\ \E p \in DOMAIN pools : pools[p].closed

=============================================================================
